---------------------------- MODULE Spec2Model ----------------------------
(***************************************************************************)
(* A model of the actor-critic learning kernel: the two simulated worlds   *)
(* (Gambler, PoleBalancing) and the Actor's policy / eligibility tables.   *)
(*                                                                         *)
(* Python floats are modelled as fixed-point integers: the integer n       *)
(* stands for the real n / Scale.  Products and quotients round to the     *)
(* nearest.  Objects are records whose fields carry the attribute names of *)
(* the Python classes.                                                     *)
(***************************************************************************)
EXTENDS Integers, Sequences, FiniteSets, TLC

VARIABLES
    problem,   \* which world GPRLSystem constructed ("gambler" / "cartpole"), or "actor"
    gambler,   \* the Gambler object
    pole,      \* the PoleBalancing object
    actor,     \* the Actor object
    ret,       \* the last call: its name, its arguments, what it returned or that it raised
    episode    \* bookkeeping of the current episode: update calls applied and rejected

vars == <<problem, gambler, pole, actor, ret, episode>>

-----------------------------------------------------------------------------
(* Bounds of the exploration.                                              *)

\* update calls explored per episode (caps current_step)
MaxCalls == 4
\* largest max_steps constructor argument explored
MaxSteps == 2
\* calls made on one Actor
MaxActorCalls == 3

-----------------------------------------------------------------------------
(* Fixed-point arithmetic standing for Python's float arithmetic.          *)

Scale == 10 * 10 * 10

Abs(x) == IF x < 0 THEN -x ELSE x

\* quotient of integers rounded to the nearest integer (b > 0)
Quot(a, b) == (2 * a + b) \div (2 * b)

\* x * y and x / y on fixed-point numbers, rounded to the nearest representable
Mul(x, y) == (2 * x * y + Scale) \div (2 * Scale)
Div(x, y) == Quot(x * Scale, y)

\* the values random() is drawn from, all in [0, 1)
RandomDraws == {0, 12, 500, 988}

Min(a, b) == IF a <= b THEN a ELSE b

-----------------------------------------------------------------------------
(* Gambler                                                                 *)

max_coins == 100
min_bet == 1
\* the values explored of randint(1, 99), both ends included
InitialCoins == {1, 2, 49, 50, 51, 98, 99}
\* win_prob constructor arguments explored: 0.0, 0.4 (the default), 1.0
WinProbs == {0, (4 * Scale) \div 10, Scale}
\* wagers passed to update: legal and illegal ones
Wagers == {-1, 0, 1, 2, 3, 25, 49, 50, 51}

\* the one-hot tuple with the 1 placed one slot too far to the left
GamblerGetCurrentState_Shifted(g) ==
    [i \in 1 .. (max_coins + 1) |-> IF i = g.state THEN 1 ELSE 0]

\* get_current_state: one-hot tuple of the coin count
GamblerGetCurrentState(g) ==
    [i \in 1 .. (max_coins + 1) |-> IF i = g.state + 1 THEN 1 ELSE 0]

\* list(range(lo, hi))
Range(lo, hi) == [i \in 1 .. (IF hi > lo THEN hi - lo ELSE 0) |-> lo + i - 1]

\* get_legal_actions(state=None)
GamblerGetLegalActions(g) ==
    LET dist_to_win == max_coins - g.state
        dist_to_lose == g.state
        max_bet == Min(dist_to_lose, dist_to_win)
    IN  <<min_bet>> \o Range(min_bet + 1, max_bet + 1)

\* action_is_legal without the upper limit on the wager
action_is_legal_NoUpper(g, action) == action >= min_bet

\* action_is_legal(action)
action_is_legal(g, action) ==
    LET dist_to_win == max_coins - g.state
        dist_to_lose == g.state
        max_bet == Min(dist_to_lose, dist_to_win)
    IN  action >= min_bet /\ action <= max_bet

\* get_child_state with the comparison of the draw turned round
GamblerGetChildState_Flipped(g, action, rnd) ==
    IF rnd >= g.win_prob THEN g.state + action ELSE g.state - action

\* get_child_state(action), rnd being the value random() returns
GamblerGetChildState(g, action, rnd) ==
    IF rnd < g.win_prob THEN g.state + action ELSE g.state - action

\* is_current_state_final_state()
GamblerIsFinal(g) == g.state = max_coins

\* is_current_state_failed_state()
GamblerIsFailed(g) == g.failed

\* the failure check with the timeout one step late
GamblerFailCheck_Late(g) ==
    IF ~g.failed /\ (g.current_step > g.max_steps \/ g.state = 0)
    THEN [g EXCEPT !.failed = TRUE]
    ELSE g

\* the failure check of update, on the object after the transition
GamblerFailCheck(g) ==
    IF ~g.failed /\ (g.current_step >= g.max_steps \/ g.state = 0)
    THEN [g EXCEPT !.failed = TRUE]
    ELSE g

\* the object after produce_initial_state(), coins being what randint returns
GamblerReset(g, coins) ==
    [g EXCEPT !.current_step = 0, !.state = coins, !.failed = FALSE]

GamblerInit ==
    \E wp \in WinProbs, ms \in 0 .. MaxSteps, coins \in InitialCoins :
        gambler = GamblerReset([state |-> 0, win_prob |-> wp, current_step |-> 0,
                                max_steps |-> ms, failed |-> FALSE], coins)

NoCall == [op |-> "__init__"]
NewEpisode == [applied |-> 0, rejected |-> 0]

\* Gambler.produce_initial_state()
GamblerProduceInitialState ==
    /\ problem = "gambler"
    /\ \E coins \in InitialCoins :
        /\ gambler' = GamblerReset(gambler, coins)
        /\ ret' = [op |-> "produce_initial_state",
                   from_failed |-> GamblerIsFailed(gambler),
                   from_final |-> GamblerIsFinal(gambler),
                   value |-> GamblerGetCurrentState(GamblerReset(gambler, coins))]
    /\ episode' = NewEpisode
    /\ UNCHANGED <<problem, pole, actor>>

\* the object after update(action) got past the legality check: the transition,
\* rnd being the value random() returns, and then the failure check
GamblerApply(g, action, rnd) ==
    GamblerFailCheck([g EXCEPT !.state = GamblerGetChildState(g, action, rnd)])

\* Gambler.update(action)
GamblerUpdate ==
    /\ problem = "gambler"
    /\ gambler.current_step < MaxCalls
    /\ \E action \in Wagers, rnd \in RandomDraws :
        LET g1 == [gambler EXCEPT !.current_step = @ + 1]
            old_state == g1.state
            g2 == GamblerApply(g1, action, rnd)
        IN
        IF ~action_is_legal(g1, action)
        THEN \* raise Exception("Illegal action")
             /\ gambler' = g1
             /\ ret' = [op |-> "update", action |-> action, raised |-> TRUE,
                        old_state |-> old_state, draws |-> 0]
             /\ episode' = [episode EXCEPT !.rejected = @ + 1]
        ELSE /\ gambler' = g2
             /\ ret' = [op |-> "update", action |-> action, raised |-> FALSE,
                        old_state |-> old_state, draws |-> 1,
                        reward |-> g2.state - old_state]
             /\ episode' = [episode EXCEPT !.applied = @ + 1]
    /\ UNCHANGED <<problem, pole, actor>>

\* Gambler.get_current_state()
GamblerGetCurrentStateCall ==
    /\ problem = "gambler"
    /\ ret' = [op |-> "get_current_state",
               value |-> GamblerGetCurrentState(gambler)]
    /\ UNCHANGED <<problem, gambler, pole, actor, episode>>

-----------------------------------------------------------------------------
(* PoleBalancing                                                           *)

length == Scale \div 2
mass_p == Scale \div 10
gravity == (-98 * Scale) \div 10
mass_c == 1 * Scale
force == 10 * Scale
max_angle == (21 * Scale) \div 100
max_x_pos == (24 * Scale) \div 10
\* tau constructor arguments explored: 0.02 (the default) and 0.5
Taus == {(2 * Scale) \div 100, Scale \div 2}
\* actions passed to update: False, True and integers that are neither
PoleActions == -3 .. 2
FailReward == -1000
StepReward == 1

Pi == (31416 * Scale) \div 10000
HalfPi == (15708 * Scale) \div 10000

\* x brought into [-Pi, Pi)
WrapAngle(x) == ((x + Pi) % (2 * Pi)) - Pi

\* np.cos: even Taylor polynomial on [-Pi/2, Pi/2], mirrored outside
CosSeries(r) ==
    LET r2 == Mul(r, r)
        r4 == Mul(r2, r2)
        r6 == Mul(r4, r2)
    IN  Scale - Quot(r2, 2) + Quot(r4, 24) - Quot(r6, 720)

Cos(x) ==
    LET r == Abs(WrapAngle(x))
    IN  IF r <= HalfPi THEN CosSeries(r) ELSE -CosSeries(Pi - r)

\* np.sin: odd Taylor polynomial on [-Pi/2, Pi/2], mirrored outside
SinSeries(r) ==
    LET r2 == Mul(r, r)
        r3 == Mul(r2, r)
        r5 == Mul(r3, r2)
        r7 == Mul(r5, r2)
    IN  r - Quot(r3, 6) + Quot(r5, 120) - Quot(r7, 5040)

Sin(x) ==
    LET w == WrapAngle(x)
        r == Abs(w)
        s == IF r <= HalfPi THEN SinSeries(r) ELSE SinSeries(Pi - r)
    IN  IF w < 0 THEN -s ELSE s

\* np.sign
Sign(x) == IF x < 0 THEN -1 ELSE IF x > 0 THEN 1 ELSE 0

\* Python's round(x): to the nearest integer, a tie to the even one
Round(x) ==
    LET q == x \div Scale
        rem == x - q * Scale
    IN  IF 2 * rem < Scale THEN q
        ELSE IF 2 * rem > Scale THEN q + 1
        ELSE IF q % 2 = 0 THEN q ELSE q + 1

\* one_hot_variable(rounded_var, abs_max)
one_hot_variable(rounded_var, abs_max) ==
    LET n == abs_max * 2 + 1
        hits == {i \in 1 .. n : rounded_var <= i - 1 - abs_max}
        slot == IF hits = {} THEN n
                ELSE CHOOSE i \in hits : \A j \in hits : i <= j
    IN  [i \in 1 .. n |-> IF i = slot THEN 1 ELSE 0]

\* one_hot_state(rounded_state)
one_hot_state(rounded_state) ==
    one_hot_variable(rounded_state[1], 1) \o one_hot_variable(rounded_state[2], 3)
        \o one_hot_variable(rounded_state[3], 1) \o one_hot_variable(rounded_state[4], 3)

\* round_state(state), state = <<x_pos, x_vel, angle, angle_vel>>
round_state(state) ==
    one_hot_state(<<Sign(state[1]), Round(state[2]), Sign(state[3]), Round(state[4])>>)

\* get_current_state()
PoleGetCurrentState(p) == round_state(<<p.x_pos, p.x_vel, p.angle, p.angle_vel>>)

\* update_angle_acc(bb_force)
update_angle_acc(p, bb_force) ==
    LET numerator_fraction ==
            Div(Mul(Cos(p.angle),
                    -bb_force - Mul(Mul(Mul(mass_p, length), Mul(p.angle_vel, p.angle_vel)),
                                    Sin(p.angle))),
                mass_p + mass_c)
        numerator == Mul(gravity, Sin(p.angle)) + numerator_fraction
        denominator ==
            Mul(length, Div(4 * Scale, 3 * Scale)
                          - Div(Mul(mass_p, Mul(Cos(p.angle), Cos(p.angle))),
                                mass_p + mass_c))
    IN  Div(numerator, denominator)

\* update_x_acc(bb_force, angle_acc)
update_x_acc(p, bb_force, angle_acc) ==
    LET numerator ==
            bb_force + Mul(Mul(mass_p, length),
                           Mul(Mul(p.angle_vel, p.angle_vel), Sin(p.angle))
                             - Mul(angle_acc, Cos(p.angle)))
        denominator == mass_p + mass_c
    IN  Div(numerator, denominator)

\* [-self.force, self.force][action]: whether the index is in range, and the element
BangBangIndexOk(action) == action >= -2 /\ action <= 1
BangBangForce(action) == <<-force, force>>[(action % 2) + 1]

\* the Euler step advancing position and angle with the velocities it has
\* just computed
PoleGetChildState_NewVelocity(p, action) ==
    LET bb_force == BangBangForce(action)
        angle_acc == update_angle_acc(p, bb_force)
        x_acc == update_x_acc(p, bb_force, angle_acc)
    IN  << p.x_pos + Mul(p.tau, p.x_vel + Mul(p.tau, x_acc)),
           p.x_vel + Mul(p.tau, x_acc),
           p.angle + Mul(p.tau, p.angle_vel + Mul(p.tau, angle_acc)),
           p.angle_vel + Mul(p.tau, angle_acc) >>

\* get_child_state(action): <<x_pos, x_vel, angle, angle_vel>> after one Euler step
PoleGetChildState(p, action) ==
    LET bb_force == BangBangForce(action)
        angle_acc == update_angle_acc(p, bb_force)
        x_acc == update_x_acc(p, bb_force, angle_acc)
    IN  << p.x_pos + Mul(p.tau, p.x_vel),
           p.x_vel + Mul(p.tau, x_acc),
           p.angle + Mul(p.tau, p.angle_vel),
           p.angle_vel + Mul(p.tau, angle_acc) >>

\* the final test looking at the step count alone
PoleIsFinal_IgnoreFailure(p) == p.current_step >= p.steps

\* is_current_state_final_state()
PoleIsFinal(p) ==
    (p.current_step >= p.steps) /\ ~p.cart_exited /\ ~p.balancing_failed

\* is_current_state_failed_state()
PoleIsFailed(p) == p.cart_exited \/ p.balancing_failed

\* get_legal_actions(): False, True
PoleGetLegalActions == <<0, 1>>

\* the failure checks recomputing the flags from the current values
PoleFailCheck_NotSticky(p) ==
    [p EXCEPT !.balancing_failed = (Abs(p.angle) >= max_angle),
              !.cart_exited = (Abs(p.x_pos) >= max_x_pos)]

\* the failure checks of update, on the object after the transition
PoleFailCheck(p) ==
    [p EXCEPT !.balancing_failed = @ \/ (Abs(p.angle) >= max_angle),
              !.cart_exited = @ \/ (Abs(p.x_pos) >= max_x_pos)]

\* the object after update(action) assigned get_child_state's result and
\* ran the failure checks
PoleApply(p, action) ==
    LET next_state == PoleGetChildState(p, action)
    IN  PoleFailCheck([p EXCEPT !.x_pos = next_state[1], !.x_vel = next_state[2],
                                !.angle = next_state[3], !.angle_vel = next_state[4]])

\* the reward taken from the values of the current step alone
PoleReward_CurrentOnly(p) ==
    IF Abs(p.angle) >= max_angle \/ Abs(p.x_pos) >= max_x_pos
    THEN FailReward ELSE StepReward

\* the reward update returns for the object it leaves
PoleReward(p) == IF PoleIsFailed(p) THEN FailReward ELSE StepReward

\* uniform(-max_angle, max_angle) = a + (b - a) * random()
Uniform(a, b, rnd) == a + Mul(b - a, rnd)

\* a reset that leaves the failure flags of the previous episode standing
PoleReset_KeepFlags(p, rnd) ==
    [p EXCEPT !.angle = Uniform(-max_angle, max_angle, rnd), !.angle_vel = 0,
              !.x_pos = 0, !.x_vel = 0, !.current_step = 0]

\* the object after produce_initial_state(), rnd being the value random() returns
PoleReset(p, rnd) ==
    [p EXCEPT !.angle = Uniform(-max_angle, max_angle, rnd), !.angle_vel = 0,
              !.x_pos = 0, !.x_vel = 0, !.current_step = 0,
              !.balancing_failed = FALSE, !.cart_exited = FALSE]

PoleInit ==
    \E tau \in Taus, ms \in 0 .. MaxSteps, rnd \in RandomDraws :
        pole = PoleReset([tau |-> tau, steps |-> ms, angle |-> 0, angle_vel |-> 0,
                          x_pos |-> 0, x_vel |-> 0, current_step |-> 0,
                          balancing_failed |-> FALSE, cart_exited |-> FALSE], rnd)

\* PoleBalancing.produce_initial_state()
PoleProduceInitialState ==
    /\ problem = "cartpole"
    /\ \E rnd \in RandomDraws :
        /\ pole' = PoleReset(pole, rnd)
        /\ ret' = [op |-> "produce_initial_state",
                   from_failed |-> PoleIsFailed(pole),
                   from_final |-> PoleIsFinal(pole),
                   value |-> PoleGetCurrentState(PoleReset(pole, rnd))]
    /\ episode' = NewEpisode
    /\ UNCHANGED <<problem, gambler, actor>>

\* PoleBalancing.update(action)
PoleUpdate ==
    /\ problem = "cartpole"
    /\ pole.current_step < MaxCalls
    /\ \E action \in PoleActions :
        LET p1 == [pole EXCEPT !.current_step = @ + 1]
            p2 == PoleApply(p1, action)
        IN
        IF ~BangBangIndexOk(action)
        THEN \* IndexError: list index out of range
             /\ pole' = p1
             /\ ret' = [op |-> "update", action |-> action, raised |-> TRUE,
                        old_state |-> <<pole.x_pos, pole.x_vel, pole.angle, pole.angle_vel>>]
             /\ episode' = [episode EXCEPT !.rejected = @ + 1]
        ELSE /\ pole' = p2
             /\ ret' = [op |-> "update", action |-> action, raised |-> FALSE,
                        old_state |-> <<pole.x_pos, pole.x_vel, pole.angle, pole.angle_vel>>,
                        reward |-> PoleReward(p2)]
             /\ episode' = [episode EXCEPT !.applied = @ + 1]
    /\ UNCHANGED <<problem, gambler, actor>>

-----------------------------------------------------------------------------
(* Actor                                                                   *)
(* A table is a function whose domain is the set of keys stored in the     *)
(* defaultdict; reading an absent key stores it with the default 0.        *)

\* the state tuples and actions that state-action pairs are built from
ActorStates == {<<0>>, <<1>>}
ActorActions == {1, 2, 3}
\* (*state, action)
Pair(state, action) == state \o <<action>>
Pairs == {Pair(s, a) : s \in ActorStates, a \in ActorActions}
\* values passed to the setters, td errors passed to update_state_action_value
SetValues == {-(Scale \div 2), Scale}
TdErrors == {-Scale, Scale \div 2}
\* lrate, drate and trace_decay constructor arguments explored
LRates == {Scale \div 2}
DRates == {Scale \div 2}
TraceDecays == {Scale \div 2}
\* possible_actions lists passed to get_proposed_action
ActionLists == {<<>>, <<1, 2, 3>>, <<3, 1, 2>>, <<2, 3, 1>>}

\* defaultdict(lambda: 0)
EmptyTable == [k \in {} |-> 0]
\* table[key], the value read
Lookup(table, key) == IF key \in DOMAIN table THEN table[key] ELSE 0
\* table[key], the table left behind by the read
Touch(table, key) ==
    IF key \in DOMAIN table THEN table
    ELSE [k \in DOMAIN table \cup {key} |-> IF k = key THEN 0 ELSE table[k]]
\* table[key] = value
Store(table, key, value) ==
    [k \in DOMAIN table \cup {key} |-> IF k = key THEN value ELSE table[k]]

\* initiate_eligibility that keeps the table
initiate_eligibility_Keep(a) == a

\* initiate_eligibility()
initiate_eligibility(a) == [a EXCEPT !.state_action_eligibility = EmptyTable]

\* get_state_action_eligibility(pair): the object it leaves
get_state_action_eligibility(a, pair) ==
    [a EXCEPT !.state_action_eligibility = Touch(@, pair)]

\* set_state_action_eligibility(pair, value)
set_state_action_eligibility(a, pair, value) ==
    [a EXCEPT !.state_action_eligibility = Store(@, pair, value)]

\* get_state_action_value(pair): the object it leaves
get_state_action_value(a, pair) == [a EXCEPT !.policy = Touch(@, pair)]

\* set_state_action_value(pair, value)
set_state_action_value(a, pair, value) == [a EXCEPT !.policy = Store(@, pair, value)]

\* update_state_action_value without the eligibility factor
update_state_action_value_NoTrace(a, pair, td_error) ==
    LET a1 == get_state_action_value(a, pair)
        a2 == get_state_action_eligibility(a1, pair)
    IN  set_state_action_value(a2, pair, Lookup(a.policy, pair) + Mul(a.lrate, td_error))

\* update_state_action_value(pair, td_error)
update_state_action_value(a, pair, td_error) ==
    LET a1 == get_state_action_value(a, pair)
        a2 == get_state_action_eligibility(a1, pair)
        new_state_action_value ==
            Lookup(a.policy, pair)
              + Mul(Mul(a.lrate, td_error), Lookup(a1.state_action_eligibility, pair))
    IN  set_state_action_value(a2, pair, new_state_action_value)

\* the decay with the discount rate left out of the factor
update_state_action_eligibility_NoDiscount(a, pair) ==
    LET a1 == get_state_action_eligibility(a, pair)
        new_state_action_eligibility ==
            Mul(a.trace_decay, Lookup(a.state_action_eligibility, pair))
    IN  set_state_action_eligibility(a1, pair, new_state_action_eligibility)

\* update_state_action_eligibility(pair)
update_state_action_eligibility(a, pair) ==
    LET a1 == get_state_action_eligibility(a, pair)
        new_state_action_eligibility ==
            Mul(Mul(a.drate, a.trace_decay), Lookup(a.state_action_eligibility, pair))
    IN  set_state_action_eligibility(a1, pair, new_state_action_eligibility)

\* float('-inf') and the order of floats with it
NegInf == [inf |-> TRUE, val |-> 0]
Finite(v) == [inf |-> FALSE, val |-> v]
Equal_Never(v, best) == FALSE
Greater(v, best) == best.inf \/ v > best.val
Equal(v, best) == ~best.inf /\ v = best.val

\* the loop of get_proposed_action over possible_actions[i ..]: the object and
\* the list best_action it ends with
RECURSIVE ArgmaxLoop(_, _, _, _, _, _)
ArgmaxLoop(a, state, possible_actions, i, best_action, best_state_action_value) ==
    IF i > Len(possible_actions)
    THEN [actor |-> a, best_action |-> best_action]
    ELSE LET action == possible_actions[i]
             state_action_pair == Pair(state, action)
             state_action_value == Lookup(a.policy, state_action_pair)
             a1 == get_state_action_value(a, state_action_pair)
         IN  IF Greater(state_action_value, best_state_action_value)
             THEN ArgmaxLoop(a1, state, possible_actions, i + 1,
                             <<action>>, Finite(state_action_value))
             ELSE IF Equal(state_action_value, best_state_action_value)
             THEN ArgmaxLoop(a1, state, possible_actions, i + 1,
                             Append(best_action, action), best_state_action_value)
             ELSE ArgmaxLoop(a1, state, possible_actions, i + 1,
                             best_action, best_state_action_value)

\* get_proposed_action falling back to action 0 when it is given no actions
get_proposed_action_Degenerate(a, do_argmax, state, possible_actions) ==
    IF possible_actions = <<>>
    THEN [actor |-> a, best_action |-> <<0>>]
    ELSE IF ~do_argmax
    THEN [actor |-> a, best_action |-> possible_actions]
    ELSE ArgmaxLoop(a, state, possible_actions, 1, <<>>, NegInf)

\* get_proposed_action(do_argmax, state, possible_actions): the object it leaves
\* and the list random.choice draws from
get_proposed_action(a, do_argmax, state, possible_actions) ==
    IF ~do_argmax
    THEN [actor |-> a, best_action |-> possible_actions]
    ELSE ArgmaxLoop(a, state, possible_actions, 1, <<>>, NegInf)

ActorInit ==
    \E lr \in LRates, dr \in DRates, td \in TraceDecays :
        actor = [policy |-> EmptyTable, state_action_eligibility |-> EmptyTable,
                 lrate |-> lr, drate |-> dr, trace_decay |-> td]

ActorCall ==
    /\ problem = "None"
    /\ episode.calls < MaxActorCalls
    /\ episode' = [episode EXCEPT !.calls = @ + 1]
    /\ UNCHANGED <<problem, gambler, pole>>

\* Actor.initiate_eligibility()
ActorInitiateEligibility ==
    /\ ActorCall
    /\ actor' = initiate_eligibility(actor)
    /\ ret' = [op |-> "initiate_eligibility",
               replaced |-> actor.state_action_eligibility]

\* Actor.get_state_action_eligibility(pair)
ActorGetStateActionEligibility ==
    /\ ActorCall
    /\ \E pair \in Pairs :
        /\ actor' = get_state_action_eligibility(actor, pair)
        /\ ret' = [op |-> "get_state_action_eligibility", pair |-> pair,
                   value |-> Lookup(actor.state_action_eligibility, pair)]

\* Actor.set_state_action_eligibility(pair, value)
ActorSetStateActionEligibility ==
    /\ ActorCall
    /\ \E pair \in Pairs, value \in SetValues :
        /\ actor' = set_state_action_eligibility(actor, pair, value)
        /\ ret' = [op |-> "set_state_action_eligibility", pair |-> pair, value |-> value]

\* Actor.get_state_action_value(pair)
ActorGetStateActionValue ==
    /\ ActorCall
    /\ \E pair \in Pairs :
        /\ actor' = get_state_action_value(actor, pair)
        /\ ret' = [op |-> "get_state_action_value", pair |-> pair,
                   value |-> Lookup(actor.policy, pair)]

\* Actor.set_state_action_value(pair, value)
ActorSetStateActionValue ==
    /\ ActorCall
    /\ \E pair \in Pairs, value \in SetValues :
        /\ actor' = set_state_action_value(actor, pair, value)
        /\ ret' = [op |-> "set_state_action_value", pair |-> pair, value |-> value]

\* Actor.update_state_action_value(pair, td_error)
ActorUpdateStateActionValue ==
    /\ ActorCall
    /\ \E pair \in Pairs, td_error \in TdErrors :
        /\ actor' = update_state_action_value(actor, pair, td_error)
        /\ ret' = [op |-> "update_state_action_value", pair |-> pair,
                   td_error |-> td_error, replaced |-> Lookup(actor.policy, pair)]

\* Actor.update_state_action_eligibility(pair)
ActorUpdateStateActionEligibility ==
    /\ ActorCall
    /\ \E pair \in Pairs :
        /\ actor' = update_state_action_eligibility(actor, pair)
        /\ ret' = [op |-> "update_state_action_eligibility", pair |-> pair]

\* Actor.get_proposed_action(do_argmax, state, possible_actions)
ActorGetProposedAction ==
    /\ ActorCall
    /\ \E do_argmax \in BOOLEAN, state \in ActorStates, possible_actions \in ActionLists :
        LET r == get_proposed_action(actor, do_argmax, state, possible_actions)
            call == [op |-> "get_proposed_action", do_argmax |-> do_argmax,
                     state |-> state, possible_actions |-> possible_actions,
                     best_action |-> r.best_action]
        IN
        /\ actor' = r.actor
        /\ IF r.best_action = <<>>
           THEN \* random.choice of an empty list: IndexError
                ret' = call @@ [raised |-> TRUE]
           ELSE \E i \in 1 .. Len(r.best_action) :
                ret' = call @@ [raised |-> FALSE, value |-> r.best_action[i]]

-----------------------------------------------------------------------------
(* The world GPRLSystem constructs, by the configured problem.             *)

NotConstructed == "None"

Init ==
    /\ problem \in {"gambler", "cartpole"}
    /\ IF problem = "gambler"
       THEN GamblerInit /\ pole = NotConstructed
       ELSE PoleInit /\ gambler = NotConstructed
    /\ actor = NotConstructed
    /\ ret = NoCall
    /\ episode = NewEpisode

Next ==
    \/ GamblerProduceInitialState
    \/ GamblerUpdate
    \/ GamblerGetCurrentStateCall
    \/ PoleProduceInitialState
    \/ PoleUpdate

Spec == Init /\ [][Next]_vars

-----------------------------------------------------------------------------
(* The Actor alone, driven by arbitrary calls.                             *)

ActorSpecInit ==
    /\ problem = NotConstructed
    /\ gambler = NotConstructed
    /\ pole = NotConstructed
    /\ ActorInit
    /\ ret = NoCall
    /\ episode = [calls |-> 0]

ActorNext ==
    \/ ActorInitiateEligibility
    \/ ActorGetStateActionEligibility
    \/ ActorSetStateActionEligibility
    \/ ActorGetStateActionValue
    \/ ActorSetStateActionValue
    \/ ActorUpdateStateActionValue
    \/ ActorUpdateStateActionEligibility
    \/ ActorGetProposedAction

ActorSpec == ActorSpecInit /\ [][ActorNext]_vars

-----------------------------------------------------------------------------
(* The Actor's eligibility traces under the decay factors 0, 1/2 and 1.    *)

\* the values drate and trace_decay are constructed with
TraceFactors == {0, Scale \div 2, Scale}

ActorTraceInit ==
    /\ problem = NotConstructed
    /\ gambler = NotConstructed
    /\ pole = NotConstructed
    /\ \E lr \in LRates, dr \in TraceFactors, td \in TraceFactors :
        actor = [policy |-> EmptyTable, state_action_eligibility |-> EmptyTable,
                 lrate |-> lr, drate |-> dr, trace_decay |-> td]
    /\ ret = NoCall
    /\ episode = [calls |-> 0]

ActorTraceNext ==
    \/ ActorSetStateActionEligibility
    \/ ActorSetStateActionValue
    \/ ActorUpdateStateActionEligibility

ActorTraceSpec == ActorTraceInit /\ [][ActorTraceNext]_vars

-----------------------------------------------------------------------------
(* PoleBalancing.round_state called once on an arbitrary float tuple.      *)

\* the largest whole speed of the finite velocities round_state is given
MaxSpeed == 4

\* a Python float: a finite value, or inf, -inf, nan
FloatOf(n) == [finite |-> TRUE, val |-> n]
PlusInf == [finite |-> FALSE, val |-> 1]
MinusInf == [finite |-> FALSE, val |-> -1]
NaN == [finite |-> FALSE, val |-> 0]

\* positions and angles: both signs, zero, the limits, and the infinities
RoundPositions ==
    {FloatOf(n) : n \in {-max_x_pos, -1, 0, 1, max_x_pos}} \cup {PlusInf, MinusInf}

\* velocities: the quarters up to MaxSpeed + 1/2, and inf, -inf, nan
RoundVelocities ==
    {FloatOf(k * (Scale \div 4)) : k \in -(4 * MaxSpeed + 2) .. (4 * MaxSpeed + 2)}
        \cup {PlusInf, MinusInf, NaN}

\* np.sign of a float that is not nan
FloatSign(x) == IF x.finite THEN Sign(x.val) ELSE x.val

\* PoleBalancing.round_state(state): round() raises OverflowError on an
\* infinity and ValueError on nan
RoundStateCall ==
    /\ problem = NotConstructed
    /\ ret = NoCall
    /\ LET state == episode.state
           x_pos == state[1]
           x_vel == state[2]
           angle == state[3]
           angle_vel == state[4]
       IN  IF ~x_vel.finite \/ ~angle_vel.finite
           THEN ret' = [op |-> "round_state", state |-> state, raised |-> TRUE]
           ELSE ret' = [op |-> "round_state", state |-> state, raised |-> FALSE,
                        value |-> one_hot_state(<<FloatSign(x_pos), Round(x_vel.val),
                                                  FloatSign(angle), Round(angle_vel.val)>>)]
    /\ UNCHANGED <<problem, gambler, pole, actor, episode>>

RoundInit ==
    /\ problem = NotConstructed
    /\ gambler = NotConstructed
    /\ pole = NotConstructed
    /\ actor = NotConstructed
    /\ ret = NoCall
    /\ \E x_pos \in RoundPositions, x_vel \in RoundVelocities,
          angle \in RoundPositions, angle_vel \in RoundVelocities :
        episode = [state |-> <<x_pos, x_vel, angle, angle_vel>>]

RoundNext == RoundStateCall

RoundSpec == RoundInit /\ [][RoundNext]_vars


-----------------------------------------------------------------------------
(* Properties                                                              *)

Elements(list) == {list[i] : i \in 1 .. Len(list)}
IsGambler == problem = "gambler"
IsPole == problem = "cartpole"
GamblerUpdated == IsGambler /\ ret.op = "update"
PoleUpdated == IsPole /\ ret.op = "update"

\* C1: in every reachable Gambler state, terminal coin counts included,
\* action_is_legal(a) holds for exactly the actions get_legal_actions()
\* returns, and these are the integers in [1, min(s, max_coins - s)].
C1_LegalActionsAgree ==
    IsGambler =>
        LET s == gambler.state
            legal == Elements(GamblerGetLegalActions(gambler))
        IN  /\ \A a \in -1 .. (max_coins + 1) : action_is_legal(gambler, a) <=> a \in legal
            /\ legal = 1 .. Min(s, max_coins - s)

\* C2: for a Gambler with max_steps >= 1, is_current_state_final_state() and
\* is_current_state_failed_state() are never both true.
C2_FinalExcludesFailed ==
    (IsGambler /\ gambler.max_steps >= 1) =>
        ~(GamblerIsFinal(gambler) /\ GamblerIsFailed(gambler))

\* C3: in both worlds, once is_current_state_failed_state() is true it stays
\* true over every update call, accepted or rejected; only
\* produce_initial_state() makes it false again.
C3_FailedIsSticky ==
    [][ ret'.op # "produce_initial_state" =>
            /\ (IsGambler /\ GamblerIsFailed(gambler)) => GamblerIsFailed(gambler')
            /\ (IsPole /\ PoleIsFailed(pole)) => PoleIsFailed(pole') ]_vars

\* C3 witness: the pole is still failed after an update that left the angle and
\* the position inside their bounds.
C3_Witness ==
    /\ PoleUpdated /\ ~ret.raised /\ ret.action \in Elements(PoleGetLegalActions)
    /\ PoleIsFailed(pole)
    /\ Abs(pole.angle) < max_angle /\ Abs(pole.x_pos) < max_x_pos

\* C4: Gambler.update(action) raises exactly for the wagers below 1 or above
\* min(coins, max_coins - coins), and a rejected call changes neither the coin
\* count nor the failure flag.
C4_IllegalWagerRejected ==
    [][ (IsGambler /\ ret'.op = "update") =>
            LET s == gambler.state
                a == ret'.action
            IN  /\ ret'.raised <=> (a < 1 \/ a > Min(s, max_coins - s))
                /\ ret'.raised =>
                      gambler'.state = s /\ gambler'.failed = gambler.failed ]_vars

\* C4 witness: with no coins left the wager 1 is rejected.
C4_Witness ==
    GamblerUpdated /\ ret.raised /\ ret.action = 1 /\ gambler.state = 0

\* C5: PoleBalancing.update(action) raises for every action that is not one
\* of the legal actions False/True (0/1).
C5_PoleRejectsIllegal ==
    (PoleUpdated /\ ret.action \notin Elements(PoleGetLegalActions)) => ret.raised

\* C6: Gambler with max_steps >= 1: after k legal update calls since
\* produce_initial_state() the failure flag is true iff coins are 0 or
\* k >= max_steps.
C6_FailedIffBrokeOrTimeout ==
    (IsGambler /\ gambler.max_steps >= 1 /\ episode.rejected = 0) =>
        (GamblerIsFailed(gambler) <=>
            (gambler.state = 0 \/ episode.applied >= gambler.max_steps))

\* C6 witness: the flag was set by the update on which the step count reached
\* max_steps, with coins left.
C6_Witness ==
    /\ GamblerUpdated /\ episode.rejected = 0
    /\ gambler.max_steps >= 2 /\ episode.applied = gambler.max_steps
    /\ gambler.state # 0 /\ GamblerIsFailed(gambler)

\* C7: an accepted Gambler.update(a) from s makes one draw, moves coins to
\* s + a or s - a, returns new coins - old coins (+a on a win, -a on a loss);
\* with win_prob = 1.0 the outcome is s + a with reward a.
C7_WagerOutcome ==
    (GamblerUpdated /\ ~ret.raised) =>
        LET s == ret.old_state
            a == ret.action
        IN  /\ ret.draws = 1
            /\ gambler.state \in {s + a, s - a}
            /\ ret.reward = gambler.state - s
            /\ gambler.state = s + a => ret.reward = a
            /\ gambler.state = s - a => ret.reward = -a
            /\ gambler.win_prob = Scale => (gambler.state = s + a /\ ret.reward = a)

\* C7 witness: a forced win.
C7_Witness ==
    /\ GamblerUpdated /\ ~ret.raised
    /\ gambler.win_prob = Scale /\ ret.action > 1
    /\ gambler.state = ret.old_state + ret.action

ActorCalled(op) == problem = NotConstructed /\ ret.op = op

\* C8: get_proposed_action(do_argmax=True) on a non-empty list returns an
\* action of maximal state-action value (0 for pairs never set), and the
\* actions it chooses among are all the candidates attaining the maximum.
C8_ArgmaxReturnsAnyBest ==
    (ActorCalled("get_proposed_action") /\ ret.do_argmax /\ ret.possible_actions # <<>>) =>
        LET candidates == Elements(ret.possible_actions)
            Value(a) == Lookup(actor.policy, Pair(ret.state, a))
            best == {a \in candidates : \A b \in candidates : Value(a) >= Value(b)}
        IN  /\ ~ret.raised
            /\ ret.value \in best
            /\ Elements(ret.best_action) = best

\* C8 witness: two actions tie for the maximum above a third one, and the one
\* returned is the later of the two in possible_actions.
C8_Witness ==
    /\ ActorCalled("get_proposed_action") /\ ret.do_argmax /\ ~ret.raised
    /\ Len(ret.best_action) = 2 /\ ret.best_action[1] # ret.best_action[2]
    /\ ret.value = ret.best_action[2]
    /\ Lookup(actor.policy, Pair(ret.state, ret.value)) > 0
    /\ \E c \in Elements(ret.possible_actions) :
          Lookup(actor.policy, Pair(ret.state, c))
              < Lookup(actor.policy, Pair(ret.state, ret.value))

\* C9: after initiate_eligibility() the eligibility of every pair reads 0 and
\* the policy table is as it was.
C9_InitiateClearsEligibility ==
    [][ ret'.op = "initiate_eligibility" =>
            /\ \A pair \in Pairs : Lookup(actor'.state_action_eligibility, pair) = 0
            /\ actor'.policy = actor.policy ]_vars

\* C9 witness: initiate_eligibility() replaced a table holding a nonzero
\* eligibility while the policy table holds a nonzero value.
C9_Witness ==
    /\ ActorCalled("initiate_eligibility")
    /\ \E pair \in Pairs : Lookup(ret.replaced, pair) # 0
    /\ \E pair \in Pairs : Lookup(actor.policy, pair) # 0

\* C10: update_state_action_value(pair, td_error) sets the value of pair to
\* old_value + lrate * td_error * eligibility(pair) (to within one unit of the
\* number representation), leaves the value of every other pair and every
\* eligibility as they were; with eligibility 0 the value does not change.
C10_ValueUpdateRule ==
    [][ ret'.op = "update_state_action_value" =>
            LET pair == ret'.pair
                e == Lookup(actor.state_action_eligibility, pair)
                old_value == Lookup(actor.policy, pair)
                new_value == Lookup(actor'.policy, pair)
            IN  /\ Abs((new_value - old_value) * Scale * Scale
                         - actor.lrate * ret'.td_error * e) <= Scale * Scale
                /\ (actor.lrate * ret'.td_error * e) % (Scale * Scale) = 0 =>
                      (new_value - old_value) * Scale * Scale
                          = actor.lrate * ret'.td_error * e
                /\ e = 0 => new_value = old_value
                /\ \A other \in Pairs \ {pair} :
                      Lookup(actor'.policy, other) = Lookup(actor.policy, other)
                /\ \A any \in Pairs :
                      Lookup(actor'.state_action_eligibility, any)
                          = Lookup(actor.state_action_eligibility, any) ]_vars

\* C10 witness: a nonzero value was moved by an update with nonzero eligibility.
C10_Witness ==
    /\ ActorCalled("update_state_action_value")
    /\ ret.replaced # 0
    /\ Lookup(actor.state_action_eligibility, ret.pair) # 0
    /\ Lookup(actor.policy, ret.pair) # ret.replaced

\* C11: an applied PoleBalancing.update sets balancing_failed exactly when the
\* angle magnitude after the step exceeds max_angle, and cart_exited exactly
\* when the position magnitude after the step exceeds max_x_pos; a magnitude
\* equal to the limit is not a failure.
C11_FailureOnlyBeyondLimit ==
    [][ (IsPole /\ ret'.op = "update" /\ ~ret'.raised
                /\ ret'.action \in Elements(PoleGetLegalActions)) =>
            /\ ~pole.balancing_failed =>
                  (pole'.balancing_failed <=> Abs(pole'.angle) > max_angle)
            /\ ~pole.cart_exited =>
                  (pole'.cart_exited <=> Abs(pole'.x_pos) > max_x_pos) ]_vars

\* C12: an applied PoleBalancing.update returns -1000 exactly when
\* is_current_state_failed_state() is true after the step, which includes every
\* step after the one that set a failure flag, and +1 otherwise; no other
\* reward is returned.
C12_RewardIsPenaltyIffFailed ==
    (PoleUpdated /\ ~ret.raised) =>
        /\ ret.reward \in {-1000, 1}
        /\ ret.reward = -1000 <=> PoleIsFailed(pole)
        /\ ret.reward = 1 <=> ~(pole.balancing_failed \/ pole.cart_exited)

\* a later step of a failed episode pays the penalty although the pole and the
\* cart are back inside their limits
C12_Witness ==
    /\ PoleUpdated /\ ~ret.raised
    /\ ret.action \in Elements(PoleGetLegalActions)
    /\ episode.applied >= 2
    /\ Abs(pole.angle) < max_angle /\ Abs(pole.x_pos) < max_x_pos
    /\ ret.reward = -1000

C14_CoinsInRangeOneHot ==
    /\ [](IsGambler => gambler.state \in 0 .. 100)
    /\ [][ (IsGambler /\ ret'.op = "get_current_state") =>
              /\ gambler' = gambler
              /\ Len(ret'.value) = 100 + 1
              /\ \A i \in 1 .. Len(ret'.value) :
                    ret'.value[i] = (IF i - 1 = gambler.state THEN 1 ELSE 0)
              /\ \A i \in 1 .. Len(ret'.value) : ret'.value[i] \in {0, 1}
              /\ Cardinality({i \in 1 .. Len(ret'.value) : ret'.value[i] = 1}) = 1
       ]_vars

\* get_current_state() called at a boundary that a wager reached, after a
\* rejected call in the same episode
C14_Witness ==
    /\ IsGambler /\ ret.op = "get_current_state"
    /\ gambler.state \in {0, max_coins}
    /\ episode.applied >= 1 /\ episode.rejected >= 1
    /\ ret.value[gambler.state + 1] = 1

\* what C15 asks of a Gambler that produce_initial_state() has just reset
C15_GamblerFresh ==
    /\ gambler.current_step = 0 /\ ~gambler.failed
    /\ gambler.state \in 1 .. (100 - 1)
    /\ ~GamblerIsFailed(gambler) /\ ~GamblerIsFinal(gambler)
    /\ Len(GamblerGetLegalActions(gambler)) >= 1
    /\ ret.value = GamblerGetCurrentState(gambler)

\* what C15 asks of a PoleBalancing that produce_initial_state() has just
\* reset, its not being final left aside
C15_PoleFresh ==
    /\ pole.current_step = 0 /\ ~pole.balancing_failed /\ ~pole.cart_exited
    /\ pole.x_pos = 0 /\ pole.x_vel = 0 /\ pole.angle_vel = 0
    /\ pole.angle >= -max_angle /\ pole.angle <= max_angle
    /\ ~PoleIsFailed(pole)
    /\ Len(PoleGetLegalActions) >= 1
    /\ ret.value = PoleGetCurrentState(pole)

C16_DecayStep(pair, e, new, r) ==
    /\ 2 * Abs(new * Scale - r * e) <= Scale
    /\ new * e >= 0
    /\ \A p \in Pairs \ {pair} :
          /\ Lookup(actor'.state_action_eligibility, p)
                = Lookup(actor.state_action_eligibility, p)
          /\ p \in DOMAIN actor'.state_action_eligibility
                <=> p \in DOMAIN actor.state_action_eligibility
    /\ actor'.policy = actor.policy

\* the step r * e is large enough to be told from e
C16_Resolved(e, r) == Abs(e) * (Scale - r) >= Scale

\* C16 (as stated): update_state_action_eligibility(pair) with
\* drate * trace_decay = r turns a nonzero eligibility e into r * e, so n calls
\* in a row yield r^n * e; each call strictly decreases the magnitude, the
\* sign never changes, and the other pairs' eligibility and the policy values
\* are untouched.
C16_EligibilityDecays ==
    [][ (problem = NotConstructed /\ ret'.op = "update_state_action_eligibility") =>
          LET pair == ret'.pair
              e == Lookup(actor.state_action_eligibility, pair)
              new == Lookup(actor'.state_action_eligibility, pair)
              r == Mul(actor.drate, actor.trace_decay)
          IN  /\ C16_DecayStep(pair, e, new, r)
              /\ (e # 0 /\ (r < Scale => C16_Resolved(e, r))) => Abs(new) < Abs(e)
      ]_vars

\* C16 (amended): the same, the magnitude strictly decreasing when
\* 0 <= r < 1; with r = 1 the eligibility stays as it is.
C16_EligibilityDecays_Amended ==
    [][ (problem = NotConstructed /\ ret'.op = "update_state_action_eligibility") =>
          LET pair == ret'.pair
              e == Lookup(actor.state_action_eligibility, pair)
              new == Lookup(actor'.state_action_eligibility, pair)
              r == Mul(actor.drate, actor.trace_decay)
          IN  /\ C16_DecayStep(pair, e, new, r)
              /\ (e # 0 /\ r < Scale /\ C16_Resolved(e, r)) => Abs(new) < Abs(e)
              /\ r = Scale => new = e
      ]_vars

\* the second decay in a row of one pair by r = 1/4: an eligibility of 1/2 or
\* 1 has become less than 1/8 and is still not 0
C16_Witness ==
    /\ ActorCalled("update_state_action_eligibility")
    /\ Mul(actor.drate, actor.trace_decay) = Scale \div 4
    /\ Lookup(actor.state_action_eligibility, ret.pair) # 0
    /\ Abs(Lookup(actor.state_action_eligibility, ret.pair)) * 8 < Scale

\* the slot, counted from 0, that holds the single 1 of the one-hot vector
\* t[first + 1 .. first + n], or -1 when the vector is not one-hot
C17_Slot(t, first, n) ==
    LET ones == {i \in 0 .. n - 1 : t[first + i + 1] = 1}
    IN  IF /\ \A i \in 0 .. n - 1 : t[first + i + 1] \in {0, 1}
           /\ Cardinality(ones) = 1
        THEN CHOOSE i \in ones : TRUE
        ELSE -1

\* the slot a position or an angle x selects by its sign
C17_SignSlot(x) ==
    IF x.finite
    THEN (IF x.val < 0 THEN 0 ELSE IF x.val = 0 THEN 1 ELSE 2)
    ELSE (IF x.val < 0 THEN 0 ELSE 2)

\* slot is the slot of a velocity x: of the integer v nearest to x, the even
\* one on a tie, saturated to [-3, 3]
C17_IsSpeedSlot(x, slot) ==
    /\ x.finite
    /\ \E v \in -(MaxSpeed + 2) .. (MaxSpeed + 2) :
          /\ 2 * Abs(v * Scale - x.val) <= Scale
          /\ 2 * Abs(v * Scale - x.val) = Scale => v % 2 = 0
          /\ slot = (IF v < -3 THEN 0 ELSE IF v > 3 THEN 6 ELSE v + 3)

\* C17: for every input round_state returns a tuple of length 20 = 3 + 7 + 3 + 7
\* with exactly one 1 in each of the four sub-vectors; a position or angle of
\* sign -1, 0, +1 selects slot 0, 1, 2; a rounded velocity v in [-3, 3] selects
\* slot v + 3, a smaller one slot 0, a larger one slot 6; no value raises an
\* error.
C17_RoundStateEncodes ==
    ret.op = "round_state" =>
        /\ ~ret.raised
        /\ Len(ret.value) = 20
        /\ C17_Slot(ret.value, 0, 3) = C17_SignSlot(ret.state[1])
        /\ C17_IsSpeedSlot(ret.state[2], C17_Slot(ret.value, 3, 7))
        /\ C17_Slot(ret.value, 10, 3) = C17_SignSlot(ret.state[3])
        /\ C17_IsSpeedSlot(ret.state[4], C17_Slot(ret.value, 13, 7))

\* what round_state does keep of C17: a call that returns was given finite
\* velocities and encodes them, and the signs, as C17 says
C17_FiniteVelocitiesEncode ==
    (ret.op = "round_state" /\ ~ret.raised) =>
        /\ ret.state[2].finite /\ ret.state[4].finite
        /\ Len(ret.value) = 20
        /\ C17_Slot(ret.value, 0, 3) = C17_SignSlot(ret.state[1])
        /\ C17_IsSpeedSlot(ret.state[2], C17_Slot(ret.value, 3, 7))
        /\ C17_Slot(ret.value, 10, 3) = C17_SignSlot(ret.state[3])
        /\ C17_IsSpeedSlot(ret.state[4], C17_Slot(ret.value, 13, 7))

\* C18: an applied PoleBalancing.update advances position and angle with the
\* velocities held before the step and the velocities with the accelerations
\* computed from the state before the step; so the first applied update of an
\* episode leaves x_pos at 0 and the angle at its initial value while both
\* velocities become nonzero.
C18_StepUsesOldVelocities ==
    [][ (IsPole /\ ret'.op = "update" /\ ~ret'.raised) =>
          LET bb_force == IF ret'.action % 2 = 0 THEN -force ELSE force
              angle_acc == update_angle_acc(pole, bb_force)
              x_acc == update_x_acc(pole, bb_force, angle_acc)
          IN  /\ pole'.x_pos = pole.x_pos + Mul(pole.tau, pole.x_vel)
              /\ pole'.angle = pole.angle + Mul(pole.tau, pole.angle_vel)
              /\ pole'.x_vel = pole.x_vel + Mul(pole.tau, x_acc)
              /\ pole'.angle_vel = pole.angle_vel + Mul(pole.tau, angle_acc)
              /\ episode.applied = 0 =>
                    /\ pole'.x_pos = 0 /\ pole'.angle = pole.angle
                    /\ pole'.x_vel # 0 /\ pole'.angle_vel # 0
      ]_vars

\* a later step of an episode: cart and pole were moving, position and angle
\* advanced by the old velocities, and the velocities changed in the same step
C18_Witness ==
    /\ PoleUpdated /\ ~ret.raised
    /\ ret.action \in Elements(PoleGetLegalActions)
    /\ episode.applied >= 2
    /\ Mul(pole.tau, ret.old_state[2]) # 0 /\ Mul(pole.tau, ret.old_state[4]) # 0
    /\ pole.x_pos = ret.old_state[1] + Mul(pole.tau, ret.old_state[2])
    /\ pole.angle = ret.old_state[3] + Mul(pole.tau, ret.old_state[4])
    /\ Mul(pole.tau, pole.x_vel) # Mul(pole.tau, ret.old_state[2])
    /\ Mul(pole.tau, pole.angle_vel) # Mul(pole.tau, ret.old_state[4])

\* C19: get_proposed_action called with an empty possible_actions raises an
\* error whether do_argmax is true or false; it returns no value and leaves
\* every policy value and eligibility unchanged.
C19_EmptyActionsRaise ==
    [][ (problem = NotConstructed /\ ret'.op = "get_proposed_action"
            /\ ret'.possible_actions = <<>>) =>
          /\ ret'.raised
          /\ "value" \notin DOMAIN ret'
          /\ actor'.policy = actor.policy
          /\ actor'.state_action_eligibility = actor.state_action_eligibility
      ]_vars

\* the greedy call on an empty list, made while the policy and eligibility
\* tables hold values
C19_Witness ==
    /\ ActorCalled("get_proposed_action")
    /\ ret.possible_actions = <<>> /\ ret.do_argmax
    /\ ret.raised
    /\ DOMAIN actor.policy # {}
    /\ DOMAIN actor.state_action_eligibility # {}

\* C20: a Gambler.update call rejected for an illegal action leaves the step
\* counter unchanged, so only applied wagers count toward max_steps: after
\* any mix of accepted and rejected calls the failure flag is false whenever
\* coins are nonzero and fewer than max_steps wagers have been applied, and
\* true whenever the step counter is at least max_steps.
C20_RejectedCallsDoNotCount ==
    (IsGambler /\ gambler.max_steps >= 1) =>
        /\ gambler.current_step = episode.applied
        /\ (gambler.state # 0 /\ episode.applied < gambler.max_steps)
                => ~gambler.failed
        /\ gambler.current_step >= gambler.max_steps => gambler.failed


\* C21: the Actor's read operations get_state_action_value,
\* get_state_action_eligibility and get_proposed_action never add, remove or
\* change an entry of the policy table or of the eligibility table, so the set
\* of stored state-action pairs changes only through the set_ and update_
\* operations and initiate_eligibility().
C21_ReadsLeaveTablesAlone ==
    [][ (problem = NotConstructed
            /\ ret'.op \in {"get_state_action_value", "get_state_action_eligibility",
                            "get_proposed_action"}) =>
          /\ actor'.policy = actor.policy
          /\ actor'.state_action_eligibility = actor.state_action_eligibility
          /\ DOMAIN actor'.policy = DOMAIN actor.policy
          /\ DOMAIN actor'.state_action_eligibility
                = DOMAIN actor.state_action_eligibility
      ]_vars

=============================================================================
